---- MODULE Spec2Model ----
(***************************************************************************)
(* One request served by FauxInterfaceFactory(main): __call__ ->           *)
(* error_sanitized_call -> adaptor.main -> get_close_names ->              *)
(* get_distances, and back out through the two exception handlers.         *)
(*                                                                         *)
(* Numbers.  Atom coordinates are integers.  A distance is kept as the     *)
(* integer under the square root (sq), so sqrt(9) is [sq |-> 9]; NaN is a  *)
(* separate value.  Thresholds are integers t, and "distance <= t" is      *)
(* decided as Python decides it for these values: never for NaN, never for *)
(* t < 0 (a distance is >= 0), and otherwise sq <= t*t.                    *)
(***************************************************************************)
EXTENDS Integers, Sequences, FiniteSets

\* ---------------------------------------------------------------- bounds
\* the most atoms a molecule has
MaxAtoms == 2

\* ------------------------------------------------------------ input domains
Names == {"a", "b", "c"}
TargetNames == {"a"}
Thresholds == {-1, 0, 2, 3}
\* atoms of the molecules of a request, and of the two molecules given to the
\* distance engine alone
PoolPoints == {<<0, 0, 0>>, <<0, 0, 3>>}
Points == {<<0, 0, 0>>, <<1, 0, 0>>, <<0, 0, 2>>, <<0, 0, 5>>}

SeqsUpTo(S, n) == UNION {[1..k -> S] : k \in 0..n}
Mols == SeqsUpTo(Points, MaxAtoms)
PoolMols == SeqsUpTo(PoolPoints, MaxAtoms)
SdfRecords == [name : Names, atoms : PoolMols]
\* the SD blocks in which each name is given at most once
SdfBlocks ==
    {sdf \in SeqsUpTo(SdfRecords, Cardinality(Names)) :
        \A i, j \in 1..Len(sdf) : sdf[i].name = sdf[j].name => i = j}

\* ------------------------------------------------------------ float values
NaN == [isnan |-> TRUE, sq |-> 0]
Num(d) == [isnan |-> FALSE, sq |-> d]

Sq(x) == x * x
\* Chem.Get3DDistanceMatrix entry for two atoms: sqrt of this sum
Dist(p, q) == Num(Sq(p[1] - q[1]) + Sq(p[2] - q[2]) + Sq(p[3] - q[3]))

\* Python's  distance <= distance_threshold  on floats
LeqMutStrict(distance, t) == ~distance.isnan /\ t >= 0 /\ distance.sq < t * t
LeqMutGeq(distance, t) == ~distance.isnan /\ (t < 0 \/ distance.sq >= t * t)
Leq(distance, t) == ~distance.isnan /\ t >= 0 /\ distance.sq <= t * t

\* ------------------------------------------------------------- dictionaries
\* A Python dict: keys in insertion order, and the value of each key.
EmptyDict == [keys |-> <<>>, val |-> <<>>]
KeySet(d) == {d.keys[i] : i \in 1..Len(d.keys)}

\* d[k] = v on a dict: a new key goes last, an old key keeps its place
DictSet(d, k, v) ==
    [keys |-> IF k \in KeySet(d) THEN d.keys ELSE Append(d.keys, k),
     val |-> [x \in KeySet(d) \cup {k} |-> IF x = k THEN v ELSE d.val[x]]]

\* {hit.GetProp('_Name'): hit for hit in sdfh}
RECURSIVE ReadBlock(_)
ReadBlock(sdf) ==
    IF sdf = <<>> THEN EmptyDict
    ELSE LET last == sdf[Len(sdf)]
         IN  DictSet(ReadBlock(SubSeq(sdf, 1, Len(sdf) - 1)), last.name, last.atoms)

\* target_name not in hitdex
TargetMissingMutNever(name, d) == FALSE
TargetMissing(name, d) == name \notin KeySet(d)

\* ------------------------------------------------------------ distance engine
CombineMols(target, hit) == target \o hit

Get3DDistanceMatrix(mol) ==
    [ij \in (1..Len(mol)) \X (1..Len(mol)) |-> Dist(mol[ij[1]], mol[ij[2]])]

\* firt_other_idx = target.GetNumAtoms()
FirstOtherIdxMutOffByOne(target) == IF Len(target) = 0 THEN 0 ELSE Len(target) - 1
FirstOtherIdx(target) == Len(target)

\* dm[slice(0, idx), slice(0, idx)] = np.nan   (rows and columns count from 1 here)
BlankLeading(dm, idx) ==
    [ij \in DOMAIN dm |-> IF ij[1] <= idx /\ ij[2] <= idx THEN NaN ELSE dm[ij]]

\* dm[slice(idx, None), slice(idx, None)] = np.nan
BlankTrailingMutSkipped(dm, idx) == dm
BlankTrailing(dm, idx) ==
    [ij \in DOMAIN dm |-> IF ij[1] > idx /\ ij[2] > idx THEN NaN ELSE dm[ij]]

\* both assignments of the "blank self reflections" loop body
Blank(dm, idx) == BlankTrailing(BlankLeading(dm, idx), idx)

\* np.nanmin raises ValueError on a zero-size array
NanMinRaises(dm) == DOMAIN dm = {}

\* np.nanmin(dm): the least entry that is not NaN, NaN when all are
NanMin(dm) ==
    LET valid == {ij \in DOMAIN dm : ~dm[ij].isnan}
    IN  IF valid = {} THEN NaN
        ELSE dm[CHOOSE ij \in valid : \A kl \in valid : dm[ij].sq <= dm[kl].sq]

\* the blanked matrix of one pool entry
MaskedMatrix(target, hit) ==
    Blank(Get3DDistanceMatrix(CombineMols(target, hit)), FirstOtherIdx(target))

\* get_distances raises: KeyError on hitdex[target_name], ValueError from nanmin
DistancesRaise(name, d) ==
    IF name \notin KeySet(d) THEN "KeyError"
    ELSE IF \E k \in KeySet(d) : NanMinRaises(MaskedMatrix(d.val[name], d.val[k]))
         THEN "ValueError"
         ELSE "none"

\* get_distances: the dict name -> float(np.nanmin(dm)), in hitdex order
DistancesOf(name, d) ==
    [keys |-> d.keys,
     val |-> [k \in KeySet(d) |-> NanMin(MaskedMatrix(d.val[name], d.val[k]))]]

\* ------------------------------------------------------------ neighbor filter
RECURSIVE SelectKeys(_, _, _)
SelectKeys(keys, val, t) ==
    IF keys = <<>> THEN <<>>
    ELSE LET rest == SelectKeys(Tail(keys), val, t)
         IN  IF Leq(val[Head(keys)], t) THEN <<Head(keys)>> \o rest ELSE rest

\* list({name: distance for name, distance in distances.items()
\*       if distance <= distance_threshold}.keys())
CloseNamesMutSkipTarget(name, dists, t) ==
    SelectSeq(SelectKeys(dists.keys, dists.val, t), LAMBDA k : k # name)
CloseNames(name, dists, t) == SelectKeys(dists.keys, dists.val, t)

\* ------------------------------------------------------------ adaptor
\* len(close_neighbors) == 0
IsEmptyResultMutSelfOnly(close) == Len(close) <= 1
IsEmptyResult(close) == Len(close) = 0

\* ------------------------------------------------------------ interface
\* JSAction members are enum.Enum objects; .name is the string
JSActionMember(n) == [kind |-> "enum", name |-> n]
NoOutputs == [results |-> <<>>, action |-> [kind |-> "none", name |-> ""]]

\* json.dumps(obj) succeeds: a list of str does, an enum.Enum member raises TypeError
IsValidJson(outputs) == outputs.action.kind # "enum"

NoResponse == [status |-> "", results |-> <<>>, error_type |-> "", action |-> ""]

\* ------------------------------------------------------------------ state
VARIABLES
    sdf_block,           \* input: the records of the SD block, in file order
    target_name,         \* input
    distance_threshold,  \* input
    pc,                  \* where the request is
    hitdex,              \* main's dict name -> molecule
    distances,           \* get_distances' result
    close_neighbors,     \* get_close_names' result
    main_raised,         \* the exception class main raised, "none" if none
    outputs,             \* what main returned
    exc,                 \* the exception leaving error_sanitized_call
    response,            \* what __call__ returned
    engine_calls,        \* how often get_distances was entered
    eng_pc,              \* the distance engine on one molecule: where it is
    eng_target,          \* its target
    eng_hit,             \* its candidate
    dm,                  \* its distance matrix
    min_distance,        \* float(np.nanmin(dm))
    eng_exc              \* the exception np.nanmin raised, "none" if none

req_vars == <<sdf_block, target_name, distance_threshold, pc, hitdex, distances,
              close_neighbors, main_raised, outputs, exc, response, engine_calls>>
eng_vars == <<eng_pc, eng_target, eng_hit, dm, min_distance, eng_exc>>
vars == <<req_vars, eng_vars>>

\* ------------------------------------------------------------ one request
ReqIdle ==
    /\ sdf_block = <<>>
    /\ target_name = "a"
    /\ distance_threshold = 0
    /\ pc = "off"
    /\ hitdex = EmptyDict
    /\ distances = EmptyDict
    /\ close_neighbors = <<>>
    /\ main_raised = "none"
    /\ outputs = NoOutputs
    /\ exc = "none"
    /\ response = NoResponse
    /\ engine_calls = 0

EngIdle ==
    /\ eng_pc = "off"
    /\ eng_target = <<>>
    /\ eng_hit = <<>>
    /\ dm = <<>>
    /\ min_distance = NaN
    /\ eng_exc = "none"

Init ==
    /\ sdf_block \in SdfBlocks
    /\ target_name \in TargetNames
    /\ distance_threshold \in Thresholds
    /\ pc = "main"
    /\ hitdex = EmptyDict
    /\ distances = EmptyDict
    /\ close_neighbors = <<>>
    /\ main_raised = "none"
    /\ outputs = NoOutputs
    /\ exc = "none"
    /\ response = NoResponse
    /\ engine_calls = 0
    /\ EngIdle

\* adaptor.main, input munging and the target check
MainParse ==
    /\ pc = "main"
    /\ hitdex' = ReadBlock(sdf_block)
    /\ IF TargetMissing(target_name, hitdex')
       THEN /\ main_raised' = "UserError"
            /\ pc' = "sanitize"
       ELSE /\ main_raised' = main_raised
            /\ pc' = "get_distances"
    /\ UNCHANGED <<sdf_block, target_name, distance_threshold, distances,
                   close_neighbors, outputs, exc, response, engine_calls, eng_vars>>

\* get_close_names enters get_distances
GetDistances ==
    /\ pc = "get_distances"
    /\ engine_calls' = engine_calls + 1
    /\ IF DistancesRaise(target_name, hitdex) # "none"
       THEN /\ main_raised' = DistancesRaise(target_name, hitdex)
            /\ pc' = "sanitize"
            /\ distances' = distances
       ELSE /\ distances' = DistancesOf(target_name, hitdex)
            /\ pc' = "filter"
            /\ main_raised' = main_raised
    /\ UNCHANGED <<sdf_block, target_name, distance_threshold, hitdex,
                   close_neighbors, outputs, exc, response, eng_vars>>

\* get_close_names filters and returns
GetCloseNames ==
    /\ pc = "filter"
    /\ close_neighbors' = CloseNames(target_name, distances, distance_threshold)
    /\ pc' = "munge"
    /\ UNCHANGED <<sdf_block, target_name, distance_threshold, hitdex, distances,
                   main_raised, outputs, exc, response, engine_calls, eng_vars>>

\* adaptor.main, output munging
MainReturn ==
    /\ pc = "munge"
    /\ IF IsEmptyResult(close_neighbors)
       THEN /\ main_raised' = "IneffectiveSettingsError"
            /\ outputs' = outputs
       ELSE /\ outputs' = [results |-> close_neighbors,
                           action |-> JSActionMember("show_LHS_hits")]
            /\ main_raised' = main_raised
    /\ pc' = "sanitize"
    /\ UNCHANGED <<sdf_block, target_name, distance_threshold, hitdex, distances,
                   close_neighbors, exc, response, engine_calls, eng_vars>>

\* error_sanitized_call after self.fun(**inputs) has returned or raised:
\* AppError('Invalid output') is raised inside the try and caught by its own
\* except Exception, like every exception of main
ErrorSanitizedCall ==
    /\ pc = "sanitize"
    /\ exc' = IF main_raised = "none" /\ IsValidJson(outputs) THEN "none" ELSE "AppError"
    /\ pc' = "respond"
    /\ UNCHANGED <<sdf_block, target_name, distance_threshold, hitdex, distances,
                   close_neighbors, main_raised, outputs, response, engine_calls,
                   eng_vars>>

\* __call__ builds the response
Respond ==
    /\ pc = "respond"
    /\ response' =
         IF exc = "none"
         THEN [status |-> "success", results |-> outputs.results,
               error_type |-> "", action |-> outputs.action.name]
         ELSE [status |-> "error", results |-> <<>>,
               error_type |-> exc, action |-> "show_toast"]
    /\ pc' = "done"
    /\ UNCHANGED <<sdf_block, target_name, distance_threshold, hitdex, distances,
                   close_neighbors, main_raised, outputs, exc, engine_calls, eng_vars>>

Next ==
    \/ MainParse
    \/ GetDistances
    \/ GetCloseNames
    \/ MainReturn
    \/ ErrorSanitizedCall
    \/ Respond

Spec == Init /\ [][Next]_vars

\* ---------------------------------- the distance engine on one molecule
\* get_distances' work for one entry of hitdex, one statement at a time
EngineInit ==
    /\ ReqIdle
    /\ eng_pc = "combine"
    /\ eng_target \in Mols
    /\ eng_hit \in Mols
    /\ dm = <<>>
    /\ min_distance = NaN
    /\ eng_exc = "none"

\* Chem.Get3DDistanceMatrix(Chem.CombineMols(target, hit))
EngCombine ==
    /\ eng_pc = "combine"
    /\ dm' = Get3DDistanceMatrix(CombineMols(eng_target, eng_hit))
    /\ eng_pc' = "blank_leading"
    /\ UNCHANGED <<req_vars, eng_target, eng_hit, min_distance, eng_exc>>

EngBlankLeading ==
    /\ eng_pc = "blank_leading"
    /\ dm' = BlankLeading(dm, FirstOtherIdx(eng_target))
    /\ eng_pc' = "blank_trailing"
    /\ UNCHANGED <<req_vars, eng_target, eng_hit, min_distance, eng_exc>>

EngBlankTrailing ==
    /\ eng_pc = "blank_trailing"
    /\ dm' = BlankTrailing(dm, FirstOtherIdx(eng_target))
    /\ eng_pc' = "nanmin"
    /\ UNCHANGED <<req_vars, eng_target, eng_hit, min_distance, eng_exc>>

EngNanMin ==
    /\ eng_pc = "nanmin"
    /\ IF NanMinRaises(dm)
       THEN /\ eng_exc' = "ValueError"
            /\ min_distance' = min_distance
       ELSE /\ min_distance' = NanMin(dm)
            /\ eng_exc' = eng_exc
    /\ eng_pc' = "done"
    /\ UNCHANGED <<req_vars, eng_target, eng_hit, dm>>

EngineNext ==
    \/ EngCombine
    \/ EngBlankLeading
    \/ EngBlankTrailing
    \/ EngNanMin

SpecEngine == EngineInit /\ [][EngineNext]_vars

\* ------------------------------------------------------------------ claims
\* The minimum over the Cartesian product target atoms x candidate atoms, as the
\* specification states it: the set of the cross distances and its least member.
CrossPairs(target, hit) ==
    {Dist(target[i], hit[j]).sq : i \in 1..Len(target), j \in 1..Len(hit)}
CrossMinDefined(target, hit) == CrossPairs(target, hit) # {}
CrossMin(target, hit) ==
    CHOOSE m \in CrossPairs(target, hit) : \A x \in CrossPairs(target, hit) : m <= x
\* sqrt(m) <= t over the reals
WithinThreshold(m, t) == t >= 0 /\ m <= t * t

Range(seq) == {seq[i] : i \in 1..Len(seq)}
NoRepeats(seq) == \A i, j \in 1..Len(seq) : seq[i] = seq[j] => i = j
TargetAbsent == \A i \in 1..Len(sdf_block) : sdf_block[i].name # target_name
\* get_distances has returned its dict; get_close_names has returned its list
DistancesReturned ==
    /\ pc \in {"filter", "munge", "sanitize", "respond", "done"}
    /\ main_raised \in {"none", "IneffectiveSettingsError"}
FilterReturned == DistancesReturned /\ pc # "filter"
TargetMol == hitdex.val[target_name]

\* C1: get_close_names returns exactly the pool names whose minimum
\* target-to-candidate distance is defined and <= threshold (inclusive), each
\* once, in the pool's order; and it does return whenever the target is in the
\* pool and every molecule has an atom.
C1_FilterExact ==
    /\ FilterReturned =>
         /\ close_neighbors =
              SelectSeq(hitdex.keys,
                        LAMBDA k : /\ CrossMinDefined(TargetMol, hitdex.val[k])
                                   /\ WithinThreshold(CrossMin(TargetMol, hitdex.val[k]),
                                                      distance_threshold))
         /\ NoRepeats(close_neighbors)
    /\ ( /\ pc \in {"sanitize", "respond", "done"}
         /\ ~TargetAbsent
         /\ \A k \in KeySet(hitdex) : Len(hitdex.val[k]) > 0 )
       => FilterReturned
C1_Witness ==
    /\ FilterReturned
    /\ distance_threshold = 3
    /\ hitdex.keys = <<"b", "a">>
    /\ close_neighbors = <<"b", "a">>
    /\ CrossMin(TargetMol, hitdex.val["b"]) = 9

\* C2: for a non-empty target and a non-empty candidate the NaN-masked minimum
\* of the augmented matrix is the minimum over target atoms x candidate atoms
\* only.
C2_CrossProductMin ==
    (eng_pc = "done" /\ Len(eng_target) > 0 /\ Len(eng_hit) > 0) =>
        /\ eng_exc = "none"
        /\ ~min_distance.isnan
        /\ min_distance.sq = CrossMin(eng_target, eng_hit)
C2_Witness ==
    /\ eng_pc = "done"
    /\ Len(eng_target) = 2 /\ eng_target[1] = eng_target[2]
    /\ Len(eng_hit) = 2 /\ eng_hit[1] # eng_hit[2]
    /\ min_distance.sq = 4

\* C3: a target_name that is no key of the pool is rejected by main with
\* UserError, and get_distances is never entered.
C3_AbsentTargetRejected ==
    TargetAbsent =>
        /\ engine_calls = 0
        /\ distances = EmptyDict
        /\ close_neighbors = <<>>
        /\ pc # "main" => main_raised = "UserError"
        /\ pc \in {"main", "sanitize", "respond", "done"}
C3_Witness ==
    /\ TargetAbsent
    /\ Len(sdf_block) > 0
    /\ pc = "done"
    /\ main_raised = "UserError"
    /\ engine_calls = 0

\* C4 as stated: with only the target in the pool and threshold 3.0,
\* get_close_names returns an empty sequence and main raises
\* IneffectiveSettingsError.
C4_OnlyTargetIsEmpty ==
    ( /\ pc = "done"
      /\ hitdex.keys = <<target_name>>
      /\ Len(TargetMol) > 0
      /\ distance_threshold = 3 )
    => (close_neighbors = <<>> /\ main_raised = "IneffectiveSettingsError")
\* C4 as amended: with only the (non-empty) target in the pool and threshold
\* 3.0, get_close_names returns the target's own name alone and main returns
\* it with show_LHS_hits; main raises IneffectiveSettingsError exactly when
\* get_close_names returned an empty sequence.
C4_OnlyTargetIsSelfMatch ==
    /\ ( /\ FilterReturned
         /\ hitdex.keys = <<target_name>>
         /\ Len(TargetMol) > 0
         /\ distance_threshold = 3 )
       => /\ close_neighbors = <<target_name>>
          /\ main_raised = "none"
          /\ pc # "munge" =>
               outputs = [results |-> <<target_name>>,
                          action |-> JSActionMember("show_LHS_hits")]
    /\ (FilterReturned /\ pc # "munge")
       => (main_raised = "IneffectiveSettingsError" <=> close_neighbors = <<>>)
C4_Witness ==
    /\ pc = "done"
    /\ hitdex.keys = <<target_name>>
    /\ distance_threshold = 3
    /\ close_neighbors = <<target_name>>
    /\ main_raised = "none"

\* C5: the target against itself, or against a candidate with the same
\* coordinates, has minimum distance 0, so for a non-empty target and a
\* threshold >= 0 the target's own name is in the result.
C5_SelfMatch ==
    /\ (DistancesReturned /\ Len(TargetMol) > 0) =>
         \A k \in KeySet(hitdex) :
            hitdex.val[k] = TargetMol => distances.val[k] = Num(0)
    /\ (FilterReturned /\ Len(TargetMol) > 0 /\ distance_threshold >= 0) =>
         /\ target_name \in Range(close_neighbors)
         /\ \A k \in KeySet(hitdex) :
               hitdex.val[k] = TargetMol => k \in Range(close_neighbors)
C5_Witness ==
    /\ FilterReturned
    /\ distance_threshold = 0
    /\ Len(TargetMol) = 2
    /\ \E k \in KeySet(hitdex) : k # target_name /\ hitdex.val[k] = TargetMol
    /\ \E k \in KeySet(hitdex) : k \notin Range(close_neighbors)
    /\ target_name \in Range(close_neighbors)

\* C6 as stated: when main returns normally, __call__ answers status 'success'
\* with the Filter's names and the action 'show_LHS_hits'.
C6_SuccessReported ==
    (pc = "done" /\ main_raised = "none") =>
        /\ response.status = "success"
        /\ response.results = close_neighbors
        /\ response.action = "show_LHS_hits"

\* C7 as stated: the response's error_type keeps the fault kinds apart:
\* UserError for an absent target, IneffectiveSettingsError for an empty
\* result, AppError only for the other failures.
C7_ErrorKindsDistinct ==
    pc = "done" =>
        /\ main_raised = "UserError" => response.error_type = "UserError"
        /\ main_raised = "IneffectiveSettingsError" =>
              response.error_type = "IneffectiveSettingsError"
        /\ response.error_type = "AppError" =>
              main_raised \notin {"UserError", "IneffectiveSettingsError"}

\* C8 as stated: when the target or a candidate has zero atoms,
\* get_close_names never completes with a result (threshold >= 0).
C8_ZeroAtomsFailFast ==
    (FilterReturned /\ distance_threshold >= 0) =>
        \A k \in KeySet(hitdex) : Len(hitdex.val[k]) > 0

\* C9: the names returned at a threshold are returned at every larger one (and
\* those of every smaller one are among them).
C9_Monotone ==
    FilterReturned =>
        \A t \in Thresholds :
            /\ t > distance_threshold =>
                 Range(close_neighbors) \subseteq
                    Range(CloseNames(target_name, distances, t))
            /\ t < distance_threshold =>
                 Range(CloseNames(target_name, distances, t)) \subseteq
                    Range(close_neighbors)
C9_Witness ==
    /\ FilterReturned
    /\ distance_threshold = 0
    /\ close_neighbors # <<>>
    /\ \E k \in Range(CloseNames(target_name, distances, 3)) :
          k \notin Range(close_neighbors)

\* C10: the engine's minimum distance for (target, candidate) is the one it
\* computes for (candidate, target), both non-empty.
C10_Symmetry ==
    (eng_pc = "done" /\ Len(eng_target) > 0 /\ Len(eng_hit) > 0) =>
        min_distance = NanMin(MaskedMatrix(eng_hit, eng_target))
C10_Witness ==
    /\ eng_pc = "done"
    /\ Len(eng_target) = 2
    /\ Len(eng_hit) = 1
    /\ eng_target[1] # eng_target[2]
    /\ min_distance.sq = 9

====
